---- MODULE Spec2Model ----
(***************************************************************************)
(* Heart-rate camera monitor: the HeartbeatAnalyzer (temporal window, POS  *)
(* projection, spectral peak pick), the window sizing of main() and the    *)
(* per-frame processing loop of main() with the HUD's published BPM.       *)
(*                                                                         *)
(* Numbers.  The C++ code computes in double / float.  The model computes  *)
(* the same formulas in fixed point: a normalised colour value x is held   *)
(* as the integer x * Scale, trigonometric and Hamming factors as          *)
(* factor * TrigScale.  epsilon = 1e-6 lies below this resolution and is   *)
(* kept only where it is the whole denominator.  Two effects of IEEE       *)
(* arithmetic that fixed point cannot produce are kept as explicit         *)
(* choices: fp_round (the cancellation in get_std rounds to zero or below  *)
(* zero, the latter giving sqrt(negative) = NaN) and clamp_build (what     *)
(* std::clamp returns when called with lo > hi, which is undefined).       *)
(***************************************************************************)
EXTENDS Integers, Sequences, FiniteSets, TLC

VARIABLES
    m_buffer,               \* HeartbeatAnalyzer::m_buffer, oldest first
    m_ws,                   \* HeartbeatAnalyzer::m_ws
    m_fps,                  \* HeartbeatAnalyzer::m_fps
    m_debug_fft_input,      \* TRUE iff the cv::Mat m_debug_fft_input is non-empty
    m_debug_fft_magnitude,  \* TRUE iff the cv::Mat m_debug_fft_magnitude is non-empty
    fp_round,               \* rounding of the cancellation in get_std on this data
    clamp_build,            \* std::clamp implementation of this build
    bpm,                    \* value returned by the latest calculate_bpm call
    last_op,                \* history: the latest call made on the analyzer
    pushed,                 \* history: every sample passed to add_sample, in order
    pc,                     \* main(): "config", "loop", "done", "aborted"; or the part explored
    cfg,                    \* AppConfig as parsed / as stored by AppConfig::load
    window_size,            \* main(): the capacity handed to the analyzer
    m_bpm,                  \* Overlay::m_bpm
    m_debug_enabled,        \* Overlay::m_debug_enabled
    outcome,                \* history: path taken by the latest loop iteration
    last_ready,             \* history: BPM of the latest Ready result (0: none yet)
    used,                   \* history: number of disturbed frames so far
    last_key,               \* main(): what cv::waitKey returned in the latest iteration
    hud,                    \* Overlay: the frame handoff between the two threads
    geo,                    \* FaceProcessor: one get_stabilized_forehead call
    scan,                   \* one pass of the peak loop and the top-3 loop over a spectrum
    tone                    \* the synthetic oscillation fed to the analyzer

vars == << m_buffer, m_ws, m_fps, m_debug_fft_input, m_debug_fft_magnitude,
           fp_round, clamp_build, bpm, last_op, pushed,
           pc, cfg, window_size, m_bpm, m_debug_enabled, outcome,
           last_ready, used, last_key, hud, geo, scan, tone >>

analyzerVars == << m_buffer, m_ws, m_fps, m_debug_fft_input, m_debug_fft_magnitude >>
mainVars == << pc, cfg, window_size, m_bpm, m_debug_enabled, outcome,
               last_ready, used >>
\* state of the parts explored on their own
partVars == << hud, geo, scan, tone >>

(***************************************************************************)
(* Bounds of the model.                                                    *)
(***************************************************************************)
MaxWs == 6                \* largest capacity tried on the analyzer alone
MaxExtra == 1             \* add_sample calls tried beyond the capacity
MaxQuarters == 36         \* window_duration_seconds tried, in quarters of a second
MaxLegacyWs == 12         \* largest legacy analysis.window_size tried
MaxDisturbances == 2      \* frames of one run with an empty ROI or the second colour
MaxFrames == 3            \* frames handed to the HUD in one run
MaxCol == 3               \* landmark columns are the multiples of 8 up to 8 * MaxCol
MaxRow == 3               \* landmark rows are 0 .. MaxRow
MaxToneWs == 10           \* largest capacity filled with a synthetic oscillation
MaxScanWs == 10           \* largest capacity whose spectrum is scanned on its own
MaxMagnitude == 2         \* magnitudes of a scanned spectrum are 0 .. MaxMagnitude
MaxLoopFrames == 2        \* passes of the frame loop before it is left
MaxHotKeys == 2           \* presses of the debug hot key during a run

(***************************************************************************)
(* Fixed-point scales.                                                     *)
(***************************************************************************)
Scale == 100
TrigScale == 100
\* 1 / epsilon for the epsilon = 1e-6 of normalize and alpha
InvEpsilon == 1000000

\* Mean colours that cv::mean can deliver for a non-empty forehead patch.
SkinA == <<120, 130, 110>>
SkinB == <<110, 140, 100>>
\* cv::mean of an empty cv::Mat (no plane is visited, the sum stays 0).
ZeroSample == <<0, 0, 0>>
Colours == {SkinA, SkinB}
Samples == Colours \cup {ZeroSample}

\* min_bpm / max_bpm pairs passed to calculate_bpm (45/180 are the defaults).
BpmRanges == { <<45, 180>>, <<200, 40>> }
FpsSet == {10, 30}
FpRounds == {"exact", "below"}
ClampBuilds == {"minmax", "lofirst", "hifirst", "assert"}

NoResult == [tag |-> "None", bpm |-> 0]
\* the parts explored on their own, before anything happened in them
\* Overlay as constructed: m_mtx free, m_frame empty (0: no frame; a frame is
\* the pair of its upper and lower half, each the number of the camera frame
\* it was copied from), both threads between two operations
HudIdle ==
    [actor |-> "none", m_mtx |-> "free", m_frame |-> << 0, 0 >>,
     m_running |-> TRUE, main_pc |-> "idle", hud_pc |-> "idle",
     source |-> 0, debug_mode |-> FALSE, bgra |-> << 0, 0 >>,
     painted |-> << 0, 0 >>, text |-> "none"]
NoGeometry == [called |-> FALSE]
NoScan == [done |-> FALSE]
NoTone == [cycles |-> 0, base |-> 0]
\* a call on the analyzer; again: "no", or the call before it was
\* calculate_bpm with the same min_b and max_b and the same ("same") or the
\* other ("flipped") debug_plot
Call(op, min_b, max_b, debug_plot, again) ==
    [op |-> op, min_b |-> min_b, max_b |-> max_b, debug_plot |-> debug_plot,
     again |-> again]
NoCall == Call("none", 0, 0, FALSE, "no")
Again(call, min_b, max_b, debug_plot) ==
    IF call.op = "calculate_bpm" /\ call.min_b = min_b /\ call.max_b = max_b
    THEN IF call.debug_plot = debug_plot THEN "same" ELSE "flipped"
    ELSE "no"

\* std::clamp is called with lo > hi only for a capacity below 4 (max_bin < 1);
\* from 4 on every library returns the same values and one build stands for all
BuildsFor(ws) == IF ws < 4 THEN ClampBuilds ELSE {"minmax"}

(***************************************************************************)
(* Arithmetic helpers.                                                     *)
(***************************************************************************)
RECURSIVE SeqSum(_)
SeqSum(s) == IF s = <<>> THEN 0 ELSE Head(s) + SeqSum(Tail(s))

RECURSIVE ISqrtIter(_, _, _)
ISqrtIter(n, lo, hi) ==
    IF lo >= hi THEN lo
    ELSE LET mid == (lo + hi + 1) \div 2
         IN  IF mid * mid <= n THEN ISqrtIter(n, mid, hi)
             ELSE ISqrtIter(n, lo, mid - 1)

\* floor of the square root; n < 2^31
ISqrt(n) == ISqrtIter(n, 0, 46340)

Min(a, b) == IF a < b THEN a ELSE b
Max(a, b) == IF a > b THEN a ELSE b

\* std::lround(num / den) for num >= 0, den > 0: halves round away from zero
LRound(num, den) == (2 * num + den) \div (2 * den)

\* ceil(num / den) for den > 0
CeilDiv(num, den) == -((-num) \div den)

\* std::clamp(v, lo, hi).  With lo > hi the call is undefined: libstdc++
\* computes min(max(v, lo), hi), libc++ tests v < lo first, the MSVC library
\* tests hi < v first, and a hardened library asserts.
Clamp(v, lo, hi, build) ==
    IF lo <= hi THEN [abort |-> FALSE, v |-> Min(Max(v, lo), hi)]
    ELSE CASE build = "minmax"  -> [abort |-> FALSE, v |-> hi]
           [] build = "lofirst" -> [abort |-> FALSE, v |-> IF v < lo THEN lo ELSE hi]
           [] build = "hifirst" -> [abort |-> FALSE, v |-> IF hi < v THEN hi ELSE lo]
           [] OTHER             -> [abort |-> TRUE, v |-> v]

\* cos(2 pi j / n) * TrigScale for n = 1..12, j = 0..n-1 (entry j+1 of row n)
CosTab ==
  <<
    <<100>>,
    <<100, -100>>,
    <<100, -50, -50>>,
    <<100, 0, -100, 0>>,
    <<100, 31, -81, -81, 31>>,
    <<100, 50, -50, -100, -50, 50>>,
    <<100, 62, -22, -90, -90, -22, 62>>,
    <<100, 71, 0, -71, -100, -71, 0, 71>>,
    <<100, 77, 17, -50, -94, -94, -50, 17, 77>>,
    <<100, 81, 31, -31, -81, -100, -81, -31, 31, 81>>,
    <<100, 84, 42, -14, -65, -96, -96, -65, -14, 42, 84>>,
    <<100, 87, 50, 0, -50, -87, -100, -87, -50, 0, 50, 87>>
  >>

\* sin(2 pi j / n) * TrigScale
SinTab ==
  <<
    <<0>>,
    <<0, 0>>,
    <<0, 87, -87>>,
    <<0, 100, 0, -100>>,
    <<0, 95, 59, -59, -95>>,
    <<0, 87, 87, 0, -87, -87>>,
    <<0, 78, 97, 43, -43, -97, -78>>,
    <<0, 71, 100, 71, 0, -71, -100, -71>>,
    <<0, 64, 98, 87, 34, -34, -87, -98, -64>>,
    <<0, 59, 95, 95, 59, 0, -59, -95, -95, -59>>,
    <<0, 54, 91, 99, 76, 28, -28, -76, -99, -91, -54>>,
    <<0, 50, 87, 100, 87, 50, 0, -50, -87, -100, -87, -50>>
  >>

\* (0.54 - 0.46 cos(2 pi i / (n-1))) * TrigScale for n = 2..12, i = 0..n-1.
\* For n = 1 the code divides 0 by 0: the factor is NaN (see HammingNaN).
HammingTab ==
  <<
    <<>>,
    <<8, 8>>,
    <<8, 100, 8>>,
    <<8, 77, 77, 8>>,
    <<8, 54, 100, 54, 8>>,
    <<8, 40, 91, 91, 40, 8>>,
    <<8, 31, 77, 100, 77, 31, 8>>,
    <<8, 25, 64, 95, 95, 64, 25, 8>>,
    <<8, 21, 54, 87, 100, 87, 54, 21, 8>>,
    <<8, 19, 46, 77, 97, 97, 77, 46, 19, 8>>,
    <<8, 17, 40, 68, 91, 100, 91, 68, 40, 17, 8>>,
    <<8, 15, 35, 61, 84, 98, 98, 84, 61, 35, 15, 8>>
  >>

HammingNaN(n) == n = 1

(***************************************************************************)
(* HeartbeatAnalyzer                                                       *)
(***************************************************************************)

\* variant: push_back without the pop_front
add_sample_no_eviction(buf, ws, bgr) == Append(buf, bgr)

\* variant: a full window refuses the new sample instead of evicting the oldest
add_sample_drops_newest(buf, ws, bgr) ==
    IF Len(buf) >= ws THEN buf ELSE Append(buf, bgr)

\* variant: a full window is cleared and started again with the new sample
add_sample_restarts_when_full(buf, ws, bgr) ==
    IF Len(buf) >= ws THEN << bgr >> ELSE Append(buf, bgr)

\* add_sample: push_back, then pop_front when the size exceeds m_ws
add_sample(buf, ws, bgr) ==
    LET grown == Append(buf, bgr)
    IN  IF Len(grown) > ws THEN Tail(grown) ELSE grown

\* step 1: one channel of the window, oldest first (1 = B, 2 = G, 3 = R)
Channel(buf, k) == [i \in 1..Len(buf) |-> buf[i][k]]

\* step 2: v / (mean + 1e-6) - 1.  With a mean of 0 every v is 0 and the
\* quotient is 0 / 1e-6 = 0; otherwise epsilon is below the resolution.
normalize(vec) ==
    LET n == Len(vec)
        sum == SeqSum(vec)
    IN  [i \in 1..n |->
            IF sum = 0 THEN 0 - Scale
            ELSE ((vec[i] * n * Scale) \div sum) - Scale]

\* step 4: sqrt(sq_sum / n - mean * mean), returned as n times its value so
\* that the ratio alpha loses no digits.  Exactly the radicand is >= 0; in
\* double arithmetic a radicand of 0 comes out as 0 or as a tiny negative
\* number, whose sqrt is NaN: rnd says which.
get_std(v, rnd) ==
    LET n == Len(v)
        sum == SeqSum(v)
        sq_sum == SeqSum([i \in 1..n |-> v[i] * v[i]])
        radicand == n * sq_sum - sum * sum
    IN  IF radicand = 0 /\ rnd = "below"
        THEN [nan |-> TRUE, v |-> 0]
        ELSE [nan |-> FALSE, v |-> ISqrt(radicand)]

\* steps 3 to 5: S1 = G - B, S2 = G + B - 2R, alpha = std(S1) / (std(S2) + 1e-6),
\* H = S1 + alpha * S2, then H minus its own mean.  nan: every H[i] is NaN.
PulseSignal(buf, rnd) ==
    LET n == Len(buf)
        B == normalize(Channel(buf, 1))
        G == normalize(Channel(buf, 2))
        R == normalize(Channel(buf, 3))
        S1 == [i \in 1..n |-> G[i] - B[i]]
        S2 == [i \in 1..n |-> G[i] + B[i] - 2 * R[i]]
        std1 == get_std(S1, rnd)
        std2 == get_std(S2, rnd)
        \* alpha * S2[i]: with std2 = 0 the denominator is epsilon alone
        aS2 == [i \in 1..n |->
                  IF std2.v > 0 THEN (std1.v * S2[i]) \div std2.v
                  ELSE std1.v * S2[i] * (InvEpsilon \div (n * Scale))]
        H == [i \in 1..n |-> S1[i] + aS2[i]]
        h_mean == SeqSum(H) \div n
    IN  [nan |-> std1.nan \/ std2.nan,
         h   |-> [i \in 1..n |-> H[i] - h_mean]]

\* step 6: the Hamming window; for n = 1 the factor is 0/0 = NaN
HammingWindow(sig) ==
    LET n == Len(sig.h)
    IN  IF HammingNaN(n) THEN [nan |-> TRUE, h |-> sig.h]
        ELSE [nan |-> sig.nan,
              h   |-> [i \in 1..n |-> sig.h[i] * HammingTab[n][i]]]

\* plot_signal: an empty image for fewer than 2 values, a plot otherwise
plot_signal(size) == size >= 2

\* step 7: |DFT(H)[k]|, the value planes[0].at<float>(k) after cv::magnitude.
\* A NaN anywhere in H makes every bin NaN.  Reading bin -1 (only possible
\* with m_ws = 1, see Clamp) reads outside the matrix; the value read cannot
\* matter because a peak index of -1 is rejected as the initial -1 is.
Magnitude(w, k) ==
    LET n == Len(w.h)
        re == SeqSum([i \in 1..n |-> w.h[i] * CosTab[n][((k * (i - 1)) % n) + 1]])
        im == 0 - SeqSum([i \in 1..n |-> w.h[i] * SinTab[n][((k * (i - 1)) % n) + 1]])
        r == re \div TrigScale
        j == im \div TrigScale
    IN  IF w.nan THEN [nan |-> TRUE, v |-> 0]
        ELSE IF k < 0 THEN [nan |-> FALSE, v |-> 0]
        ELSE [nan |-> FALSE, v |-> ISqrt(r * r + j * j)]

\* a > b on floats: false as soon as one side is NaN
FloatGt(a, b) == ~a.nan /\ ~b.nan /\ a.v > b.v

\* variant: max_bin = m_ws / 2, the Nyquist bin kept in the range
BinRange_keeps_nyquist(ws, fps, min_b, max_b, build) ==
    LET min_c == Min(Max(min_b, 0), 30 * fps)
        max_c == Min(Max(max_b, min_c), 30 * fps)
        low0 == (min_c * ws) \div (60 * fps)
        high0 == CeilDiv(max_c * ws, 60 * fps)
        max_bin == ws \div 2
        low == Clamp(low0, 1, max_bin, build)
        high == Clamp(high0, low.v, max_bin, build)
    IN  [abort |-> low.abort \/ high.abort, low |-> low.v, high |-> high.v]

\* step 8, the bin range.  min_hz * m_ws / m_fps with min_hz = min_b / 60
\* clamped into [0, fps / 2] is min_c * ws / (60 * fps) with min_c = min_b
\* clamped into [0, 30 * fps].
BinRange(ws, fps, min_b, max_b, build) ==
    LET min_c == Min(Max(min_b, 0), 30 * fps)
        max_c == Min(Max(max_b, min_c), 30 * fps)
        low0 == (min_c * ws) \div (60 * fps)
        high0 == CeilDiv(max_c * ws, 60 * fps)
        max_bin == (ws \div 2) - 1
        low == Clamp(low0, 1, max_bin, build)
        high == Clamp(high0, low.v, max_bin, build)
    IN  [abort |-> low.abort \/ high.abort, low |-> low.v, high |-> high.v]

\* variant: the loop runs while i < high and leaves the last bin out
RECURSIVE PeakScan_stops_before_high(_, _, _, _, _, _)
PeakScan_stops_before_high(mag, ws, i, high, peak, max_v) ==
    IF i < high /\ i < ws \div 2
    THEN IF FloatGt(mag[i], max_v)
         THEN PeakScan_stops_before_high(mag, ws, i + 1, high, i, mag[i])
         ELSE PeakScan_stops_before_high(mag, ws, i + 1, high, peak, max_v)
    ELSE peak

\* variant: if (mag >= max_v), the latest of equal bins wins
RECURSIVE PeakScan_last_wins(_, _, _, _, _, _)
PeakScan_last_wins(mag, ws, i, high, peak, max_v) ==
    IF i <= high /\ i < ws \div 2
    THEN IF ~mag[i].nan /\ mag[i].v >= max_v.v
         THEN PeakScan_last_wins(mag, ws, i + 1, high, i, mag[i])
         ELSE PeakScan_last_wins(mag, ws, i + 1, high, peak, max_v)
    ELSE peak

\* the peak loop: for (i = low; i <= high && i < ws / 2; ++i) if (mag > max_v) ...
\* mag[i] is the magnitude of bin i.
RECURSIVE PeakScan(_, _, _, _, _, _)
PeakScan(mag, ws, i, high, peak, max_v) ==
    IF i <= high /\ i < ws \div 2
    THEN IF FloatGt(mag[i], max_v)
         THEN PeakScan(mag, ws, i + 1, high, i, mag[i])
         ELSE PeakScan(mag, ws, i + 1, high, peak, max_v)
    ELSE peak

NoPeak == [idx |-> -1, mag |-> [nan |-> FALSE, v |-> -1]]

\* variant: v >= top[k].mag, a bin is ranked before the equal bins seen earlier
TopInsert_ties_newest(top, i, v) ==
    IF ~v.nan /\ v.v >= top[1].mag.v THEN << [idx |-> i, mag |-> v], top[1], top[2] >>
    ELSE IF ~v.nan /\ v.v >= top[2].mag.v THEN << top[1], [idx |-> i, mag |-> v], top[2] >>
    ELSE IF ~v.nan /\ v.v >= top[3].mag.v THEN << top[1], top[2], [idx |-> i, mag |-> v] >>
    ELSE top

\* the insertion of one bin into the top-3 array of the debug scan
TopInsert(top, i, v) ==
    IF FloatGt(v, top[1].mag) THEN << [idx |-> i, mag |-> v], top[1], top[2] >>
    ELSE IF FloatGt(v, top[2].mag) THEN << top[1], [idx |-> i, mag |-> v], top[2] >>
    ELSE IF FloatGt(v, top[3].mag) THEN << top[1], top[2], [idx |-> i, mag |-> v] >>
    ELSE top

\* the debug top-3 loop over the same bins
RECURSIVE Top3Scan(_, _, _, _, _)
Top3Scan(mag, ws, i, high, top) ==
    IF i <= high /\ i < ws \div 2
    THEN Top3Scan(mag, ws, i + 1, high, TopInsert(top, i, mag[i]))
    ELSE top

Buffering == [tag |-> "Buffering", bpm |-> 0]
NoiseFloor == [tag |-> "NoiseFloor", bpm |-> 0]
Aborted == [tag |-> "Abort", bpm |-> 0]
\* (peak * m_fps / m_ws) * 60, in thousandths of a BPM
Ready(peak, fps, ws) == [tag |-> "Ready", bpm |-> (peak * fps * 60000) \div ws]

\* variant: the guard written with <= instead of <
IsBuffering_off_by_one(buf, ws) == Len(buf) <= ws

\* if (m_buffer.size() < m_ws) return std::unexpected("Buffering...")
IsBuffering(buf, ws) == Len(buf) < ws

\* variant: the debug loop, pasted from the peak loop, still assigns peak = i
\* whenever it stores bin i in top
RECURSIVE Top3ScanSharingPeak(_, _, _, _, _, _)
Top3ScanSharingPeak(mag, ws, i, high, top, peak) ==
    IF i <= high /\ i < ws \div 2
    THEN LET stored == TopInsert(top, i, mag[i])
         IN  Top3ScanSharingPeak(mag, ws, i + 1, high, stored,
                                 IF stored # top THEN i ELSE peak)
    ELSE [peak |-> peak, top |-> top]

DebugPeaks_shares_peak(mag, ws, range, peak, debug_plot) ==
    IF debug_plot
    THEN Top3ScanSharingPeak(mag, ws, range.low, range.high,
                             << NoPeak, NoPeak, NoPeak >>, peak)
    ELSE [peak |-> peak, top |-> << NoPeak, NoPeak, NoPeak >>]

\* the if (debug_plot) block after the peak loop: it fills its own array top
\* and leaves the variable peak of the first loop as it is
DebugPeaks(mag, ws, range, peak, debug_plot) ==
    [peak |-> peak,
     top  |-> IF debug_plot
              THEN Top3Scan(mag, ws, range.low, range.high, << NoPeak, NoPeak, NoPeak >>)
              ELSE << NoPeak, NoPeak, NoPeak >>]

\* if (peak <= 0) return std::unexpected("Noise floor too high");
\* return (peak * m_fps / m_ws) * 60.0
Estimate(peak, fps, ws) == IF peak <= 0 THEN NoiseFloor ELSE Ready(peak, fps, ws)

\* calculate_bpm: the returned value (res), the two debug images after the
\* call (fft_input, fft_magnitude: TRUE = non-empty) and the top-3 array.
calculate_bpm(buf, ws, fps, min_b, max_b, debug_plot, dbg_in, dbg_mag, rnd, build) ==
    IF IsBuffering(buf, ws)
    THEN [res |-> Buffering, fft_input |-> dbg_in, fft_magnitude |-> dbg_mag,
          top |-> << NoPeak, NoPeak, NoPeak >>]
    ELSE
      LET w == HammingWindow(PulseSignal(buf, rnd))
          mag == [k \in (-1)..(ws - 1) |-> Magnitude(w, k)]
          range == BinRange(ws, fps, min_b, max_b, build)
          scanned == PeakScan(mag, ws, range.low, range.high, -1,
                              [nan |-> FALSE, v |-> -1])
          dbg == DebugPeaks(mag, ws, range, scanned, debug_plot)
      IN  [res |-> IF range.abort THEN Aborted ELSE Estimate(dbg.peak, fps, ws),
           fft_input |-> debug_plot /\ plot_signal(ws),
           fft_magnitude |-> debug_plot /\ plot_signal(ws \div 2),
           top |-> dbg.top]

(***************************************************************************)
(* AppConfig::load and the window sizing of main().                        *)
(* A duration is a rational number of seconds [num, den]; the YAML values  *)
(* tried are quarters of a second, which double holds exactly.             *)
(***************************************************************************)
FpsRaw == {5, 10, 24, 60, 70}

Yaml(key, quarters, legacy_ws, fps) ==
    [key |-> key, quarters |-> quarters, legacy_ws |-> legacy_ws, fps |-> fps]

\* config.yaml: analysis.window_duration_seconds, else the legacy
\* analysis.window_size, else neither; camera.acquisition_fps
Yamls ==
    { Yaml("window_duration_seconds", q, 0, f) : q \in 0..MaxQuarters, f \in FpsRaw }
    \cup { Yaml("window_size", 0, w, f) : w \in 1..MaxLegacyWs, f \in FpsRaw }
    \cup { Yaml("none", 0, 0, f) : f \in FpsRaw }

NoConfig == [window_duration_seconds |-> [num |-> 0, den |-> 1], acquisition_fps |-> 0]

\* AppConfig::load: acquisition_fps clamped into [10, 60]; the duration as
\* given, or legacy window_size / max(1.0, acquisition_fps), or 8.5
load(yaml) ==
    LET fps == Min(Max(yaml.fps, 10), 60)
    IN  [acquisition_fps |-> fps,
         window_duration_seconds |->
            CASE yaml.key = "window_duration_seconds" -> [num |-> yaml.quarters, den |-> 4]
              [] yaml.key = "window_size" -> [num |-> yaml.legacy_ws, den |-> Max(1, fps)]
              [] OTHER -> [num |-> 34, den |-> 4]]

\* variant: static_cast<int> in place of std::lround
WindowSize_truncates(c) ==
    LET d == c.window_duration_seconds
        window_seconds == IF d.num < d.den THEN [num |-> 1, den |-> 1] ELSE d
    IN  Max(2, (window_seconds.num * c.acquisition_fps) \div window_seconds.den)

\* main(): window_seconds = max(1.0, duration);
\* window_size = max(2, lround(window_seconds * acquisition_fps))
WindowSize(c) ==
    LET d == c.window_duration_seconds
        window_seconds == IF d.num < d.den THEN [num |-> 1, den |-> 1] ELSE d
    IN  Max(2, LRound(window_seconds.num * c.acquisition_fps, window_seconds.den))

InitConfig ==
    /\ \E y \in Yamls : cfg = [yaml |-> y, app |-> NoConfig]
    /\ pc = "config"
    /\ window_size = 0
    /\ m_ws = 0
    /\ m_fps = 0
    /\ m_buffer = << >>
    /\ m_debug_fft_input = FALSE
    /\ m_debug_fft_magnitude = FALSE
    /\ fp_round = "exact"
    /\ clamp_build = "minmax"
    /\ bpm = NoResult
    /\ last_op = NoCall
    /\ pushed = << >>
    /\ m_bpm = 0
    /\ m_debug_enabled = FALSE
    /\ outcome = "none"
    /\ last_ready = 0
    /\ used = 0
    /\ last_key = "none"
    /\ hud = HudIdle
    /\ geo = NoGeometry
    /\ scan = NoScan
    /\ tone = NoTone

\* main(): auto config_res = AppConfig::load("config.yaml")
LoadConfig ==
    /\ pc = "config"
    /\ cfg' = [cfg EXCEPT !.app = load(cfg.yaml)]
    /\ pc' = "loaded"
    /\ UNCHANGED << analyzerVars, fp_round, clamp_build, bpm, last_op, pushed,
                    window_size, m_bpm, m_debug_enabled, outcome, last_ready, used >>
    /\ UNCHANGED << last_key, partVars >>

\* main(): HeartbeatAnalyzer analyzer(window_size, config.camera.acquisition_fps)
Construct ==
    /\ pc = "loaded"
    /\ window_size' = WindowSize(cfg.app)
    /\ m_ws' = WindowSize(cfg.app)
    /\ m_fps' = cfg.app.acquisition_fps
    /\ pc' = "constructed"
    /\ UNCHANGED << m_buffer, m_debug_fft_input, m_debug_fft_magnitude,
                    fp_round, clamp_build, bpm, last_op, pushed,
                    cfg, m_bpm, m_debug_enabled, outcome, last_ready, used >>
    /\ UNCHANGED << last_key, partVars >>

NextConfig == LoadConfig \/ Construct

SpecConfig == InitConfig /\ [][NextConfig]_vars

(***************************************************************************)
(* The analyzer on its own: any capacity, any sequence of calls.          *)
(***************************************************************************)

\* HeartbeatAnalyzer(window_size, fps): an empty window, two empty images
InitAnalyzer ==
    /\ m_ws \in 1..MaxWs
    /\ m_fps \in FpsSet
    /\ m_buffer = << >>
    /\ m_debug_fft_input = FALSE
    /\ m_debug_fft_magnitude = FALSE
    /\ fp_round \in FpRounds
    /\ clamp_build \in BuildsFor(m_ws)
    /\ bpm = NoResult
    /\ last_op = NoCall
    /\ pushed = << >>
    /\ pc = "calls"
    /\ cfg = [yaml |-> Yaml("none", 0, 0, 0), app |-> NoConfig]
    /\ window_size = 0
    /\ m_bpm = 0
    /\ m_debug_enabled = FALSE
    /\ outcome = "none"
    /\ last_ready = 0
    /\ used = 0
    /\ last_key = "none"
    /\ hud = HudIdle
    /\ geo = NoGeometry
    /\ scan = NoScan
    /\ tone = NoTone

\* a caller invokes add_sample(bgr)
AddSample(bgr) ==
    /\ pc = "calls"
    /\ Len(pushed) < m_ws + MaxExtra
    /\ m_buffer' = add_sample(m_buffer, m_ws, bgr)
    /\ pushed' = Append(pushed, bgr)
    /\ last_op' = Call("add_sample", 0, 0, FALSE, "no")
    /\ UNCHANGED << m_ws, m_fps, m_debug_fft_input, m_debug_fft_magnitude,
                    fp_round, clamp_build, bpm, mainVars >>
    /\ UNCHANGED << last_key, partVars >>

\* variant: calculate_bpm consumes the oldest sample of the window it analysed
CalculateBpm_consumes(min_b, max_b, debug_plot) ==
    /\ pc = "calls"
    /\ \E r \in { calculate_bpm(m_buffer, m_ws, m_fps, min_b, max_b, debug_plot,
                                 m_debug_fft_input, m_debug_fft_magnitude,
                                 fp_round, clamp_build) } :
           /\ bpm' = r.res
           /\ m_debug_fft_input' = r.fft_input
           /\ m_debug_fft_magnitude' = r.fft_magnitude
           /\ pc' = IF r.res.tag = "Abort" THEN "aborted" ELSE pc
           /\ m_buffer' = IF r.res.tag = "Buffering" THEN m_buffer ELSE Tail(m_buffer)
    /\ last_op' = Call("calculate_bpm", min_b, max_b, debug_plot,
                       Again(last_op, min_b, max_b, debug_plot))
    /\ UNCHANGED << m_ws, m_fps, fp_round, clamp_build, pushed,
                    cfg, window_size, m_bpm, m_debug_enabled,
                    outcome, last_ready, used >>
    /\ UNCHANGED << last_key, partVars >>

\* a caller invokes calculate_bpm(min_b, max_b, debug_plot)
CalculateBpm(min_b, max_b, debug_plot) ==
    /\ pc = "calls"
    /\ \E r \in { calculate_bpm(m_buffer, m_ws, m_fps, min_b, max_b, debug_plot,
                                 m_debug_fft_input, m_debug_fft_magnitude,
                                 fp_round, clamp_build) } :
           /\ bpm' = r.res
           /\ m_debug_fft_input' = r.fft_input
           /\ m_debug_fft_magnitude' = r.fft_magnitude
           /\ pc' = IF r.res.tag = "Abort" THEN "aborted" ELSE pc
    /\ last_op' = Call("calculate_bpm", min_b, max_b, debug_plot,
                       Again(last_op, min_b, max_b, debug_plot))
    /\ UNCHANGED << m_buffer, m_ws, m_fps, fp_round, clamp_build, pushed,
                    cfg, window_size, m_bpm, m_debug_enabled,
                    outcome, last_ready, used >>
    /\ UNCHANGED << last_key, partVars >>

NextAnalyzer ==
    \/ \E bgr \in Colours : AddSample(bgr)
    \/ \E range \in BpmRanges, debug_plot \in BOOLEAN :
          CalculateBpm(range[1], range[2], debug_plot)

SpecAnalyzer == InitAnalyzer /\ [][NextAnalyzer]_vars

(***************************************************************************)
(* The processing loop of main(), one action per path through an iteration,*)
(* and the hotkey handler of the HUD thread.                               *)
(***************************************************************************)
\* the configuration of the runs explored: 1 s at 10 fps, the smallest window
\* AppConfig::load and main() can produce (10 samples)
MainYaml == Yaml("window_duration_seconds", 4, 0, 10)
\* analysis.min_bpm / analysis.max_bpm, the defaults of AppConfig::load
ConfigMinBpm == 45
ConfigMaxBpm == 180

\* FaceProcessor::get_avg_bgr: cv::mean of the patch; of an empty cv::Mat the
\* mean is the zero scalar
get_avg_bgr(forehead) == IF forehead.empty THEN ZeroSample ELSE forehead.mean

EmptyMat == [empty |-> TRUE, mean |-> ZeroSample]
Patch(bgr) == [empty |-> FALSE, mean |-> bgr]

\* Overlay::paint: the text drawn for a published BPM
paint_text(b) == IF b > 0 THEN "BPM" ELSE "Analyzing..."

InitMain ==
    /\ cfg = [yaml |-> MainYaml, app |-> load(MainYaml)]
    /\ window_size = WindowSize(load(MainYaml))
    /\ m_ws = WindowSize(load(MainYaml))
    /\ m_fps = load(MainYaml).acquisition_fps
    /\ m_buffer = << >>
    /\ m_debug_fft_input = FALSE
    /\ m_debug_fft_magnitude = FALSE
    /\ fp_round \in FpRounds
    /\ clamp_build = "minmax"
    /\ bpm = NoResult
    /\ last_op = NoCall
    /\ pushed = << >>
    /\ pc = "loop"
    /\ m_bpm = 0
    /\ m_debug_enabled = FALSE
    /\ outcome = "none"
    /\ last_ready = 0
    /\ used = 0
    /\ last_key = "none"
    /\ hud = HudIdle
    /\ geo = NoGeometry
    /\ scan = NoScan
    /\ tone = NoTone

\* the end of an iteration: hud.update_frame, then cv::waitKey(1) == 27 breaks
\* out of the loop (hud.stop() follows)
EndOfFrame(esc) ==
    /\ last_key' = IF esc THEN "ESC" ELSE "none"
    /\ pc' = IF esc THEN "done" ELSE "loop"

\* variant: hud.update_bpm(bpm.value_or(0.0)) on every result
FaceBlock_publishes_every_result(forehead) ==
    \E debug_mode \in { m_debug_enabled },
       window \in { add_sample(m_buffer, m_ws, get_avg_bgr(forehead)) } :
      \E r \in { calculate_bpm(window, m_ws, m_fps, ConfigMinBpm, ConfigMaxBpm,
                                debug_mode, m_debug_fft_input,
                                m_debug_fft_magnitude, fp_round, clamp_build) } :
        /\ m_buffer' = window
        /\ bpm' = r.res
        /\ m_debug_fft_input' = r.fft_input
        /\ m_debug_fft_magnitude' = r.fft_magnitude
        /\ last_op' = Call("calculate_bpm", ConfigMinBpm, ConfigMaxBpm, debug_mode, "no")
        /\ m_bpm' = r.res.bpm
        /\ last_ready' = IF r.res.tag = "Ready" THEN r.res.bpm ELSE last_ready

\* variant: the sample is added before and again after the forehead is drawn
FaceBlock_samples_twice(forehead) ==
    \E debug_mode \in { m_debug_enabled },
       window \in { add_sample(add_sample(m_buffer, m_ws, get_avg_bgr(forehead)),
                               m_ws, get_avg_bgr(forehead)) } :
      \E r \in { calculate_bpm(window, m_ws, m_fps, ConfigMinBpm, ConfigMaxBpm,
                                debug_mode, m_debug_fft_input,
                                m_debug_fft_magnitude, fp_round, clamp_build) } :
        /\ m_buffer' = window
        /\ bpm' = r.res
        /\ m_debug_fft_input' = r.fft_input
        /\ m_debug_fft_magnitude' = r.fft_magnitude
        /\ last_op' = Call("calculate_bpm", ConfigMinBpm, ConfigMaxBpm, debug_mode, "no")
        /\ m_bpm' = IF r.res.tag = "Ready" THEN r.res.bpm ELSE m_bpm
        /\ last_ready' = IF r.res.tag = "Ready" THEN r.res.bpm ELSE last_ready

\* the if (face_res) block: add_sample(get_avg_bgr(forehead)), calculate_bpm,
\* and hud.update_bpm(*bpm) when the result holds a value
FaceBlock(forehead) ==
    \E debug_mode \in { m_debug_enabled },
       window \in { add_sample(m_buffer, m_ws, get_avg_bgr(forehead)) } :
      \E r \in { calculate_bpm(window, m_ws, m_fps, ConfigMinBpm, ConfigMaxBpm,
                                debug_mode, m_debug_fft_input,
                                m_debug_fft_magnitude, fp_round, clamp_build) } :
        /\ m_buffer' = window
        /\ bpm' = r.res
        /\ m_debug_fft_input' = r.fft_input
        /\ m_debug_fft_magnitude' = r.fft_magnitude
        /\ last_op' = Call("calculate_bpm", ConfigMinBpm, ConfigMaxBpm, debug_mode, "no")
        /\ m_bpm' = IF r.res.tag = "Ready" THEN r.res.bpm ELSE m_bpm
        /\ last_ready' = IF r.res.tag = "Ready" THEN r.res.bpm ELSE last_ready

\* cap.read(frame) fails: break
FrameReadFail ==
    /\ pc = "loop"
    /\ pc' = "done"
    /\ outcome' = "ReadFail"
    /\ last_op' = NoCall
    /\ UNCHANGED << analyzerVars, fp_round, clamp_build, bpm, pushed,
                    cfg, window_size, m_bpm, m_debug_enabled, last_ready, used >>
    /\ UNCHANGED << last_key, partVars >>

\* variant: the face block runs on the stale forehead although no face was found
FrameNoFace_samples_anyway(esc) ==
    /\ pc = "loop"
    /\ EndOfFrame(esc)
    /\ outcome' = "NoFace"
    /\ FaceBlock(EmptyMat)
    /\ UNCHANGED << m_ws, m_fps, fp_round, clamp_build, pushed,
                    cfg, window_size, m_debug_enabled, used >>
    /\ UNCHANGED partVars

\* get_central_face returns "No faces in view": the if (face_res) block is skipped
FrameNoFace(esc) ==
    /\ pc = "loop"
    /\ EndOfFrame(esc)
    /\ outcome' = "NoFace"
    /\ last_op' = NoCall
    /\ UNCHANGED << analyzerVars, fp_round, clamp_build, bpm, pushed,
                    cfg, window_size, m_bpm, m_debug_enabled, last_ready, used >>
    /\ UNCHANGED partVars

\* variant: cv::mean rejects the empty cv::Mat with an exception, which leaves
\* the loop through the catch block of main()
FrameGeometryFailure_throws(esc) ==
    /\ pc = "loop"
    /\ used < MaxDisturbances
    /\ used' = used + 1
    /\ pc' = "aborted"
    /\ outcome' = "GeometryFailure"
    /\ last_op' = NoCall
    /\ UNCHANGED << analyzerVars, fp_round, clamp_build, bpm, pushed, cfg,
                    window_size, m_bpm, m_debug_enabled, last_ready, last_key,
                    partVars >>

\* a face whose stabilized forehead is the empty ROI (clipped box below 2 px)
FrameGeometryFailure(esc) ==
    /\ pc = "loop"
    /\ used < MaxDisturbances
    /\ used' = used + 1
    /\ FaceBlock(EmptyMat)
    /\ EndOfFrame(esc)
    /\ outcome' = "GeometryFailure"
    /\ UNCHANGED << m_ws, m_fps, fp_round, clamp_build, pushed,
                    cfg, window_size, m_debug_enabled >>
    /\ UNCHANGED partVars

\* a face whose stabilized forehead is a 60x45 patch of mean colour bgr
FrameSample(bgr, esc) ==
    /\ pc = "loop"
    /\ bgr = SkinB => used < MaxDisturbances
    /\ used' = IF bgr = SkinB THEN used + 1 ELSE used
    /\ FaceBlock(Patch(bgr))
    /\ EndOfFrame(esc)
    /\ outcome' = "Sample"
    /\ UNCHANGED << m_ws, m_fps, fp_round, clamp_build, pushed,
                    cfg, window_size, m_debug_enabled >>
    /\ UNCHANGED partVars

\* Overlay::WindowProc, WM_HOTKEY: the HUD thread toggles the debug mode
HotKey ==
    /\ pc = "loop"
    /\ m_debug_enabled' = ~m_debug_enabled
    /\ UNCHANGED << analyzerVars, fp_round, clamp_build, bpm, last_op, pushed,
                    pc, cfg, window_size, m_bpm, outcome, last_ready, used >>
    /\ UNCHANGED << last_key, partVars >>

Next ==
    \/ FrameReadFail
    \/ \E esc \in BOOLEAN : FrameNoFace(esc)
    \/ \E esc \in BOOLEAN : FrameGeometryFailure(esc)
    \/ \E bgr \in Colours, esc \in BOOLEAN : FrameSample(bgr, esc)
    \/ HotKey

Init == InitMain

Spec == Init /\ [][Next]_vars

(***************************************************************************)
(* The frame and BPM handoff between the processing thread (main) and the  *)
(* HUD thread (Overlay::run, WindowProc, paint).  cv::Mat::copyTo and      *)
(* cv::cvtColor move a frame in two steps, upper half then lower half, so  *)
(* that a copy in progress is a state of its own.                          *)
(***************************************************************************)
BpmValues == {60000, 72000}

InitHud ==
    /\ hud = HudIdle
    /\ pc = "threads"
    /\ cfg = [yaml |-> MainYaml, app |-> load(MainYaml)]
    /\ window_size = WindowSize(load(MainYaml))
    /\ m_ws = WindowSize(load(MainYaml))
    /\ m_fps = load(MainYaml).acquisition_fps
    /\ m_buffer = << >>
    /\ m_debug_fft_input = FALSE
    /\ m_debug_fft_magnitude = FALSE
    /\ fp_round = "exact"
    /\ clamp_build = "minmax"
    /\ bpm = NoResult
    /\ last_op = NoCall
    /\ pushed = << >>
    /\ m_bpm = 0
    /\ m_debug_enabled = FALSE
    /\ outcome = "none"
    /\ last_ready = 0
    /\ used = 0
    /\ last_key = "none"
    /\ geo = NoGeometry
    /\ scan = NoScan
    /\ tone = NoTone

\* what no step of either thread touches while the handoff is explored
hudFrame == << analyzerVars, fp_round, clamp_build, bpm, last_op, pushed, pc, cfg,
               window_size, outcome, last_ready, used, last_key, geo, scan, tone >>

MainStep(next_pc) == [hud EXCEPT !.actor = "main", !.main_pc = next_pc]
HudStep(next_pc) == [hud EXCEPT !.actor = "hud", !.hud_pc = next_pc]

\* main(): bool debug_mode = hud.is_debug_mode()
ReadDebugMode ==
    /\ pc = "threads" /\ hud.main_pc = "idle"
    /\ hud' = [MainStep("idle") EXCEPT !.debug_mode = m_debug_enabled]
    /\ UNCHANGED << hudFrame, m_bpm, m_debug_enabled >>

\* Overlay::update_bpm: the atomic store m_bpm = bpm
UpdateBpm(value) ==
    /\ pc = "threads" /\ hud.main_pc = "idle"
    /\ m_bpm' = value
    /\ hud' = MainStep("idle")
    /\ UNCHANGED << hudFrame, m_debug_enabled >>

\* variant: update_frame copies without taking m_mtx
UpdateFrameLock_without_mutex(frame) ==
    /\ pc = "threads" /\ hud.main_pc = "idle"
    /\ frame = hud.source + 1
    /\ hud' = [MainStep("copy_upper") EXCEPT !.source = frame]
    /\ UNCHANGED << hudFrame, m_bpm, m_debug_enabled >>

\* Overlay::update_frame up to std::lock_guard<std::mutex> lock(m_mtx)
UpdateFrameLock(frame) ==
    /\ pc = "threads" /\ hud.main_pc = "idle"
    /\ frame = hud.source + 1
    /\ hud.m_mtx = "free"
    /\ hud' = [MainStep("copy_upper") EXCEPT !.m_mtx = "main", !.source = frame]
    /\ UNCHANGED << hudFrame, m_bpm, m_debug_enabled >>

\* frame.copyTo(m_frame), upper half
CopyUpper ==
    /\ pc = "threads" /\ hud.main_pc = "copy_upper"
    /\ hud' = [MainStep("copy_lower") EXCEPT !.m_frame[1] = hud.source]
    /\ UNCHANGED << hudFrame, m_bpm, m_debug_enabled >>

\* frame.copyTo(m_frame), lower half
CopyLower ==
    /\ pc = "threads" /\ hud.main_pc = "copy_lower"
    /\ hud' = [MainStep("unlock") EXCEPT !.m_frame[2] = hud.source]
    /\ UNCHANGED << hudFrame, m_bpm, m_debug_enabled >>

\* the end of the locked block of update_frame: the lock_guard releases the
\* mutex it took
UpdateFrameUnlock ==
    /\ pc = "threads" /\ hud.main_pc = "unlock"
    /\ hud' = [MainStep("idle") EXCEPT
                  !.m_mtx = IF hud.m_mtx = "main" THEN "free" ELSE hud.m_mtx]
    /\ UNCHANGED << hudFrame, m_bpm, m_debug_enabled >>

\* Overlay::stop, called by main() after the loop
Stop ==
    /\ pc = "threads" /\ hud.main_pc = "idle"
    /\ hud' = [MainStep("stopped") EXCEPT !.m_running = FALSE]
    /\ UNCHANGED << hudFrame, m_bpm, m_debug_enabled >>

\* WindowProc, WM_HOTKEY, taken from the message loop of Overlay::run
HudHotKey ==
    /\ pc = "threads" /\ hud.hud_pc = "idle" /\ hud.m_running
    /\ m_debug_enabled' = ~m_debug_enabled
    /\ hud' = HudStep("idle")
    /\ UNCHANGED << hudFrame, m_bpm >>

\* WindowProc, WM_PAINT: Overlay::paint up to std::lock_guard<std::mutex> lock(m_mtx)
PaintLock ==
    /\ pc = "threads" /\ hud.hud_pc = "idle" /\ hud.m_running
    /\ hud.m_mtx = "free"
    /\ hud' = [HudStep(IF hud.m_frame = << 0, 0 >> THEN "unlock" ELSE "read_upper")
                  EXCEPT !.m_mtx = "hud"]
    /\ UNCHANGED << hudFrame, m_bpm, m_debug_enabled >>

\* cv::cvtColor(m_frame, bgra, ...), upper half
ReadUpper ==
    /\ pc = "threads" /\ hud.hud_pc = "read_upper"
    /\ hud' = [HudStep("read_lower") EXCEPT !.bgra[1] = hud.m_frame[1]]
    /\ UNCHANGED << hudFrame, m_bpm, m_debug_enabled >>

\* cv::cvtColor, lower half, then StretchDIBits draws bgra
ReadLower ==
    /\ pc = "threads" /\ hud.hud_pc = "read_lower"
    /\ hud' = [HudStep("unlock") EXCEPT
                  !.bgra[2] = hud.m_frame[2],
                  !.painted = << hud.bgra[1], hud.m_frame[2] >>]
    /\ UNCHANGED << hudFrame, m_bpm, m_debug_enabled >>

\* the end of the locked block of paint
PaintUnlock ==
    /\ pc = "threads" /\ hud.hud_pc = "unlock"
    /\ hud' = [HudStep("text") EXCEPT
                  !.m_mtx = IF hud.m_mtx = "hud" THEN "free" ELSE hud.m_mtx]
    /\ UNCHANGED << hudFrame, m_bpm, m_debug_enabled >>

\* the text of paint: the atomic load of m_bpm
PaintText ==
    /\ pc = "threads" /\ hud.hud_pc = "text"
    /\ hud' = [HudStep("idle") EXCEPT !.text = paint_text(m_bpm)]
    /\ UNCHANGED << hudFrame, m_bpm, m_debug_enabled >>

\* Overlay::run: while (m_running && GetMessage(...)) ends
HudExit ==
    /\ pc = "threads" /\ hud.hud_pc = "idle" /\ ~hud.m_running
    /\ hud' = HudStep("exited")
    /\ UNCHANGED << hudFrame, m_bpm, m_debug_enabled >>

NextHud ==
    \/ ReadDebugMode
    \/ \E value \in BpmValues : UpdateBpm(value)
    \/ \E frame \in 1..MaxFrames : UpdateFrameLock(frame)
    \/ CopyUpper
    \/ CopyLower
    \/ UpdateFrameUnlock
    \/ Stop
    \/ HudHotKey
    \/ PaintLock
    \/ ReadUpper
    \/ ReadLower
    \/ PaintUnlock
    \/ PaintText
    \/ HudExit

SpecHud == InitHud /\ [][NextHud]_vars


(***************************************************************************)
(* FaceProcessor::get_stabilized_forehead.  The three anchors (dlib parts  *)
(* 19, 24, 27) are integer points.  The affine map M takes them to dstTri, *)
(* so M_inv takes a point dst0 + u (dst1 - dst0) + v (dst2 - dst0) of the  *)
(* standard space to src0 + u (src1 - src0) + v (src2 - src0).  For the    *)
(* corners of std_forehead_rect u and v are multiples of 1/8, hence every  *)
(* coordinate is kept in eighths of a pixel and the arithmetic is exact.   *)
(***************************************************************************)
Eighths == 8
dstTri == << << 60, 100 >>, << 140, 100 >>, << 100, 130 >> >>
std_forehead_rect == [x |-> 70, y |-> 40, width |-> 60, height |-> 45]

\* tl, tr, br, bl of std_forehead_rect
std_corners ==
    << << std_forehead_rect.x, std_forehead_rect.y >>,
       << std_forehead_rect.x + std_forehead_rect.width, std_forehead_rect.y >>,
       << std_forehead_rect.x + std_forehead_rect.width,
          std_forehead_rect.y + std_forehead_rect.height >>,
       << std_forehead_rect.x, std_forehead_rect.y + std_forehead_rect.height >> >>

Det(a, b) == a[1] * b[2] - a[2] * b[1]
Minus(p, q) == << p[1] - q[1], p[2] - q[2] >>

\* the coordinates (u, v) of a standard-space point in the basis of dstTri,
\* in eighths
StdCoordinates(p) ==
    LET e1 == Minus(dstTri[2], dstTri[1])
        e2 == Minus(dstTri[3], dstTri[1])
        d == Minus(p, dstTri[1])
    IN  << (Eighths * Det(d, e2)) \div Det(e1, e2),
           (Eighths * Det(e1, d)) \div Det(e1, e2) >>

\* cv::solve(LU) inside cv::getAffineTransform: for collinear anchors the
\* system is singular.  When the pivot test sees it, M is zero, M_inv is zero
\* and every corner is (0, 0); when rounding residue passes the pivot test the
\* corners are whatever the residue gives.
ZeroCorners == [k \in 1..4 |-> << 0, 0 >>]
ResidueCorners ==
    { ZeroCorners,
      [k \in 1..4 |-> << (Eighths * std_corners[k][1]) \div 20,
                         (Eighths * std_corners[k][2]) \div 20 >>],
      [k \in 1..4 |-> << -Eighths * std_corners[k][1], Eighths * std_corners[k][2] >>] }

\* cv::transform(std_corners, frame_corners, M_inv) for anchors in general
\* position, in eighths of a pixel
BackProject(srcTri) ==
    LET a == Minus(srcTri[2], srcTri[1])
        b == Minus(srcTri[3], srcTri[1])
    IN  [k \in 1..4 |->
           LET uv == StdCoordinates(std_corners[k])
           IN  << Eighths * srcTri[1][1] + uv[1] * a[1] + uv[2] * b[1],
                  Eighths * srcTri[1][2] + uv[1] * a[2] + uv[2] * b[2] >>]

Singular(srcTri) == Det(Minus(srcTri[2], srcTri[1]), Minus(srcTri[3], srcTri[1])) = 0

MinOf(S) == CHOOSE x \in S : \A y \in S : x <= y
MaxOf(S) == CHOOSE x \in S : \A y \in S : x >= y

\* cv::boundingRect of float points: floor of the least, floor of the greatest
\* coordinate, both inclusive
boundingRect(corners) ==
    LET xs == { corners[k][1] \div Eighths : k \in 1..4 }
        ys == { corners[k][2] \div Eighths : k \in 1..4 }
    IN  [x |-> MinOf(xs), y |-> MinOf(ys),
         width |-> MaxOf(xs) - MinOf(xs) + 1, height |-> MaxOf(ys) - MinOf(ys) + 1]

\* cv::Rect::operator&=
Intersect(r, q) ==
    LET x1 == IF r.x > q.x THEN r.x ELSE q.x
        y1 == IF r.y > q.y THEN r.y ELSE q.y
        x2 == IF r.x + r.width < q.x + q.width THEN r.x + r.width ELSE q.x + q.width
        y2 == IF r.y + r.height < q.y + q.height THEN r.y + r.height ELSE q.y + q.height
    IN  IF x2 - x1 <= 0 \/ y2 - y1 <= 0
        THEN [x |-> 0, y |-> 0, width |-> 0, height |-> 0]
        ELSE [x |-> x1, y |-> y1, width |-> x2 - x1, height |-> y2 - y1]

\* cv::Mat() and the result of cv::warpAffine with dsize std_forehead_rect.size()
NoMat == [empty |-> TRUE, cols |-> 0, rows |-> 0]
Warped == [empty |-> FALSE, cols |-> std_forehead_rect.width,
           rows |-> std_forehead_rect.height]

\* variant: the patch is refused only when both sides are below 2
get_stabilized_forehead_both_sides(frame, corners) ==
    LET frame_roi == Intersect(boundingRect(corners),
                               [x |-> 0, y |-> 0, width |-> frame.cols, height |-> frame.rows])
    IN  [frame_roi |-> frame_roi,
         result |-> IF frame_roi.width < 2 /\ frame_roi.height < 2 THEN NoMat ELSE Warped]

\* get_stabilized_forehead from the back-projected corners on
get_stabilized_forehead(frame, corners) ==
    LET frame_roi == Intersect(boundingRect(corners),
                               [x |-> 0, y |-> 0, width |-> frame.cols, height |-> frame.rows])
    IN  [frame_roi |-> frame_roi,
         result |-> IF frame_roi.width < 2 \/ frame_roi.height < 2 THEN NoMat ELSE Warped]

Frames == { [cols |-> 0, rows |-> 0], [cols |-> 16, rows |-> 3],
            [cols |-> 8 * MaxCol + 8, rows |-> MaxRow + 1] }
Landmarks == { << 8 * c, r >> : c \in 0..MaxCol, r \in 0..MaxRow }

\* the arguments of one call: the frame and the three anchors
InitForehead ==
    /\ \E frame \in Frames, p19 \in Landmarks, p24 \in Landmarks, p27 \in Landmarks :
         geo = [called |-> FALSE, frame |-> frame, srcTri |-> << p19, p24, p27 >>]
    /\ pc = "geometry"
    /\ hud = HudIdle
    /\ cfg = [yaml |-> MainYaml, app |-> load(MainYaml)]
    /\ window_size = WindowSize(load(MainYaml))
    /\ m_ws = WindowSize(load(MainYaml))
    /\ m_fps = load(MainYaml).acquisition_fps
    /\ m_buffer = << >>
    /\ m_debug_fft_input = FALSE
    /\ m_debug_fft_magnitude = FALSE
    /\ fp_round = "exact"
    /\ clamp_build = "minmax"
    /\ bpm = NoResult
    /\ last_op = NoCall
    /\ pushed = << >>
    /\ m_bpm = 0
    /\ m_debug_enabled = FALSE
    /\ outcome = "none"
    /\ last_ready = 0
    /\ used = 0
    /\ last_key = "none"
    /\ scan = NoScan
    /\ tone = NoTone

\* the call get_stabilized_forehead(frame, landmarks)
GetStabilizedForehead ==
    /\ pc = "geometry"
    /\ ~geo.called
    /\ \E corners \in IF Singular(geo.srcTri) THEN ResidueCorners
                      ELSE { BackProject(geo.srcTri) } :
         \E r \in { get_stabilized_forehead(geo.frame, corners) } :
           geo' = [called |-> TRUE, frame |-> geo.frame, srcTri |-> geo.srcTri,
                   frame_corners |-> corners, frame_roi |-> r.frame_roi,
                   result |-> r.result]
    /\ UNCHANGED << analyzerVars, fp_round, clamp_build, bpm, last_op, pushed, pc, cfg,
                    window_size, m_bpm, m_debug_enabled, outcome, last_ready, used,
                    last_key, hud, scan, tone >>

NextForehead == GetStabilizedForehead

SpecForehead == InitForehead /\ [][NextForehead]_vars


(***************************************************************************)
(* The analyzer fed with a synthetic oscillation: cycles whole periods in  *)
(* a window of m_ws samples, blue and green in antiphase around the same   *)
(* baseline, red constant.  Then S1 is the oscillation and S2 is constant  *)
(* (0 at the resolution kept here).                                        *)
(***************************************************************************)
ToneBases == {80, 100}
ToneRanges == { << 45, 180 >>, << 45, 300 >> }

\* sin(2 pi cycles i / n) in tenths, rounded towards 0
ToneSine(n, cycles, i) ==
    LET sine == SinTab[n][((cycles * i) % n) + 1]
    IN  IF sine < 0 THEN 0 - ((0 - sine) \div 10) ELSE sine \div 10

\* sample i (0 = first) of the oscillation
ToneSample(t, n, i) ==
    << t.base - 4 * ToneSine(n, t.cycles, i), t.base + 4 * ToneSine(n, t.cycles, i), 100 >>

InitTone ==
    /\ m_ws \in 4..MaxToneWs
    /\ m_fps = 10
    /\ \E cycles \in 1..((m_ws - 1) \div 2), base \in ToneBases :
         tone = [cycles |-> cycles, base |-> base]
    /\ m_buffer = << >>
    /\ m_debug_fft_input = FALSE
    /\ m_debug_fft_magnitude = FALSE
    /\ fp_round \in FpRounds
    /\ clamp_build = "minmax"
    /\ bpm = NoResult
    /\ last_op = NoCall
    /\ pushed = << >>
    /\ pc = "tone"
    /\ cfg = [yaml |-> Yaml("none", 0, 0, 0), app |-> NoConfig]
    /\ window_size = 0
    /\ m_bpm = 0
    /\ m_debug_enabled = FALSE
    /\ outcome = "none"
    /\ last_ready = 0
    /\ used = 0
    /\ last_key = "none"
    /\ hud = HudIdle
    /\ geo = NoGeometry
    /\ scan = NoScan

\* add_sample with the next sample of the oscillation
AddToneSample ==
    /\ pc = "tone"
    /\ Len(pushed) < m_ws
    /\ m_buffer' = add_sample(m_buffer, m_ws, ToneSample(tone, m_ws, Len(pushed)))
    /\ pushed' = Append(pushed, ToneSample(tone, m_ws, Len(pushed)))
    /\ last_op' = Call("add_sample", 0, 0, FALSE, "no")
    /\ UNCHANGED << m_ws, m_fps, m_debug_fft_input, m_debug_fft_magnitude,
                    fp_round, clamp_build, bpm, mainVars, last_key, partVars >>

\* calculate_bpm(min_b, max_b, false) on the oscillation
ToneCalculateBpm(min_b, max_b) ==
    /\ pc = "tone"
    /\ \E r \in { calculate_bpm(m_buffer, m_ws, m_fps, min_b, max_b, FALSE,
                                 m_debug_fft_input, m_debug_fft_magnitude,
                                 fp_round, clamp_build) } :
           /\ bpm' = r.res
           /\ m_debug_fft_input' = r.fft_input
           /\ m_debug_fft_magnitude' = r.fft_magnitude
    /\ last_op' = Call("calculate_bpm", min_b, max_b, FALSE, "no")
    /\ UNCHANGED << m_buffer, m_ws, m_fps, fp_round, clamp_build, pushed,
                    mainVars, last_key, partVars >>

NextTone ==
    \/ AddToneSample
    \/ \E range \in ToneRanges : ToneCalculateBpm(range[1], range[2])

SpecTone == InitTone /\ [][NextTone]_vars


(***************************************************************************)
(* Steps 8 and 9 of calculate_bpm on their own: the bin range, the peak    *)
(* loop, the debug top-3 loop and the returned value, for any spectrum.    *)
(* A spectrum has a magnitude >= 0 in every bin, or, when H holds a NaN, a *)
(* NaN in every bin.                                                        *)
(***************************************************************************)
ScanRanges == { << 45, 180 >>, << 200, 40 >>, << 0, 300 >>, << 100, 100 >> }

Spectra(ws) ==
    { [k \in (-1)..(ws - 1) |-> [nan |-> TRUE, v |-> 0]] }
    \cup { [k \in (-1)..(ws - 1) |->
              [nan |-> FALSE, v |-> IF k \in 0..((ws \div 2) - 1) THEN f[k] ELSE 0]] :
           f \in [0..((ws \div 2) - 1) -> 0..MaxMagnitude] }

InitSpectrum ==
    /\ \E ws \in 2..MaxScanWs, fps \in FpsSet, range \in ScanRanges :
         \E build \in BuildsFor(ws), mag \in Spectra(ws) :
           scan = [done |-> FALSE, ws |-> ws, fps |-> fps, min_b |-> range[1],
                   max_b |-> range[2], build |-> build, mag |-> mag]
    /\ pc = "spectrum"
    /\ tone = NoTone
    /\ hud = HudIdle
    /\ geo = NoGeometry
    /\ cfg = [yaml |-> Yaml("none", 0, 0, 0), app |-> NoConfig]
    /\ window_size = 0
    /\ m_ws = 0
    /\ m_fps = 0
    /\ m_buffer = << >>
    /\ m_debug_fft_input = FALSE
    /\ m_debug_fft_magnitude = FALSE
    /\ fp_round = "exact"
    /\ clamp_build = "minmax"
    /\ bpm = NoResult
    /\ last_op = NoCall
    /\ pushed = << >>
    /\ m_bpm = 0
    /\ m_debug_enabled = FALSE
    /\ outcome = "none"
    /\ last_ready = 0
    /\ used = 0
    /\ last_key = "none"

\* lines 121-173 of calculate_bpm with debug_plot on the spectrum scan.mag
ScanSpectrum ==
    /\ pc = "spectrum"
    /\ ~scan.done
    /\ \E range \in { BinRange(scan.ws, scan.fps, scan.min_b, scan.max_b, scan.build) } :
         \E peak \in { PeakScan(scan.mag, scan.ws, range.low, range.high, -1,
                                [nan |-> FALSE, v |-> -1]) } :
           \E dbg \in { DebugPeaks(scan.mag, scan.ws, range, peak, TRUE) } :
             scan' = [done |-> TRUE, ws |-> scan.ws, fps |-> scan.fps,
                      min_b |-> scan.min_b, max_b |-> scan.max_b,
                      build |-> scan.build, mag |-> scan.mag,
                      range |-> range, peak |-> dbg.peak, top |-> dbg.top,
                      res |-> IF range.abort THEN Aborted
                              ELSE Estimate(dbg.peak, scan.fps, scan.ws)]
    /\ UNCHANGED << analyzerVars, fp_round, clamp_build, bpm, last_op, pushed,
                    mainVars, last_key, hud, geo, tone >>

NextSpectrum == ScanSpectrum

SpecSpectrum == InitSpectrum /\ [][NextSpectrum]_vars

(***************************************************************************)
(* The end of main(): how the frame loop is left, Overlay::stop, the       *)
(* destructors of hud_thread and hud at the end of the try block, and the  *)
(* message loop of Overlay::run with WindowProc.  The variable hud holds   *)
(* the Overlay object, the messages posted to its window and the position  *)
(* of both threads.  GetMessage in Overlay::run is taken to receive the    *)
(* messages of m_hwnd.                                                     *)
(***************************************************************************)
\* state after std::jthread hud_thread has been started
ShutdownStart ==
    [m_running |-> TRUE, hwnd |-> TRUE, queue |-> << >>, invalid |-> TRUE,
     main_pc |-> "loop", hud_pc |-> "while", msg |-> "none", ending |-> "none",
     frames |-> 0, presses |-> 0]

InitShutdown ==
    /\ hud = ShutdownStart
    /\ pc = "shutdown"
    /\ m_debug_enabled = FALSE
    /\ cfg = [yaml |-> Yaml("none", 0, 0, 0), app |-> NoConfig]
    /\ window_size = 0
    /\ m_ws = 0
    /\ m_fps = 0
    /\ m_buffer = << >>
    /\ m_debug_fft_input = FALSE
    /\ m_debug_fft_magnitude = FALSE
    /\ fp_round = "exact"
    /\ clamp_build = "minmax"
    /\ bpm = NoResult
    /\ last_op = NoCall
    /\ pushed = << >>
    /\ m_bpm = 0
    /\ outcome = "none"
    /\ last_ready = 0
    /\ used = 0
    /\ last_key = "none"
    /\ geo = NoGeometry
    /\ scan = NoScan
    /\ tone = NoTone

\* what neither thread touches while the shutdown is explored
shutdownFrame == << analyzerVars, fp_round, clamp_build, bpm, last_op, pushed, pc, cfg,
                    window_size, m_bpm, outcome, last_ready, used, last_key, geo, scan,
                    tone >>

\* PostMessage(m_hwnd, ...): a message for a window that no longer exists is dropped
PostMessage(h, m) == IF h.hwnd THEN Append(h.queue, m) ELSE h.queue

\* Overlay::stop
stop(h) == [h EXCEPT !.m_running = FALSE, !.queue = PostMessage(h, "WM_CLOSE")]

\* one pass of the frame loop that reaches its end: update_frame invalidates the window
ShutdownFrame ==
    /\ pc = "shutdown" /\ hud.main_pc = "loop"
    /\ hud.frames < MaxLoopFrames
    /\ hud' = [hud EXCEPT !.frames = @ + 1, !.invalid = @ \/ hud.hwnd]
    /\ UNCHANGED << shutdownFrame, m_debug_enabled >>

\* cap.read fails: break
ShutdownReadFail ==
    /\ pc = "shutdown" /\ hud.main_pc = "loop"
    /\ hud' = [hud EXCEPT !.main_pc = "stop", !.ending = "ReadFail"]
    /\ UNCHANGED << shutdownFrame, m_debug_enabled >>

\* cv::waitKey returns 27 after update_frame: break
ShutdownEsc ==
    /\ pc = "shutdown" /\ hud.main_pc = "loop"
    /\ hud' = [hud EXCEPT !.main_pc = "stop", !.ending = "ESC",
                          !.invalid = @ \/ hud.hwnd]
    /\ UNCHANGED << shutdownFrame, m_debug_enabled >>

\* an exception leaves the loop body: hud.stop() is skipped and the locals of
\* the try block are destroyed in reverse order of declaration, hud_thread first
ShutdownThrow ==
    /\ pc = "shutdown" /\ hud.main_pc = "loop"
    /\ hud' = [hud EXCEPT !.main_pc = "join", !.ending = "exception"]
    /\ UNCHANGED << shutdownFrame, m_debug_enabled >>

\* hud.stop() after the loop, then the end of the try block: ~jthread
CallStop ==
    /\ pc = "shutdown" /\ hud.main_pc = "stop"
    /\ hud' = [stop(hud) EXCEPT !.main_pc = "join"]
    /\ UNCHANGED << shutdownFrame, m_debug_enabled >>

\* ~jthread: join returns once Overlay::run has returned
JoinHudThread ==
    /\ pc = "shutdown" /\ hud.main_pc = "join"
    /\ hud.hud_pc = "exited"
    /\ hud' = [hud EXCEPT !.main_pc = "~Overlay"]
    /\ UNCHANGED << shutdownFrame, m_debug_enabled >>

\* ~Overlay: stop, UnregisterHotKey, DestroyWindow; then the catch clause, if
\* an exception is in flight, and return 0
DestroyOverlay ==
    /\ pc = "shutdown" /\ hud.main_pc = "~Overlay"
    /\ hud' = [stop(hud) EXCEPT !.main_pc = "returned", !.hwnd = FALSE,
                                !.queue = << >>, !.invalid = FALSE]
    /\ UNCHANGED << shutdownFrame, m_debug_enabled >>

\* Overlay::run, the test of m_running in the loop condition
RunTest ==
    /\ pc = "shutdown" /\ hud.hud_pc = "while"
    /\ hud' = [hud EXCEPT !.hud_pc = IF hud.m_running THEN "GetMessage" ELSE "exited"]
    /\ UNCHANGED << shutdownFrame, m_debug_enabled >>

\* Overlay::run, GetMessage: blocks until a message is there; a posted message
\* comes before WM_PAINT, and WM_QUIT makes it return 0
GetMessage ==
    /\ pc = "shutdown" /\ hud.hud_pc = "GetMessage"
    /\ hud.queue # << >> \/ hud.invalid
    /\ \E m \in { IF hud.queue # << >> THEN Head(hud.queue) ELSE "WM_PAINT" } :
         hud' = [hud EXCEPT !.queue = IF @ # << >> THEN Tail(@) ELSE @,
                            !.msg = m,
                            !.hud_pc = IF m = "WM_QUIT" THEN "exited" ELSE "dispatch"]
    /\ UNCHANGED << shutdownFrame, m_debug_enabled >>

\* Overlay::run, DispatchMessage: WindowProc.  WM_CLOSE falls to DefWindowProc,
\* which destroys the window; WM_DESTROY then posts WM_QUIT.
WindowProc ==
    /\ pc = "shutdown" /\ hud.hud_pc = "dispatch"
    /\ m_debug_enabled' = IF hud.msg = "WM_HOTKEY" THEN ~m_debug_enabled
                          ELSE m_debug_enabled
    /\ hud' = [hud EXCEPT
                 !.hud_pc = "while",
                 !.msg = "none",
                 !.invalid = IF hud.msg \in {"WM_PAINT", "WM_CLOSE"} THEN FALSE ELSE @,
                 !.hwnd = IF hud.msg = "WM_CLOSE" THEN FALSE ELSE @,
                 !.queue = IF hud.msg = "WM_CLOSE" /\ hud.hwnd
                           THEN Append(@, "WM_QUIT") ELSE @]
    /\ UNCHANGED shutdownFrame

\* the user presses the registered hot key: WM_HOTKEY is posted to the window
PressHotKey ==
    /\ pc = "shutdown" /\ hud.hwnd
    /\ hud.presses < MaxHotKeys
    /\ hud' = [hud EXCEPT !.presses = @ + 1, !.queue = PostMessage(hud, "WM_HOTKEY")]
    /\ UNCHANGED << shutdownFrame, m_debug_enabled >>

NextShutdown ==
    \/ ShutdownFrame
    \/ ShutdownReadFail
    \/ ShutdownEsc
    \/ ShutdownThrow
    \/ CallStop
    \/ JoinHudThread
    \/ DestroyOverlay
    \/ RunTest
    \/ GetMessage
    \/ WindowProc
    \/ PressHotKey

SpecShutdown == InitShutdown /\ [][NextShutdown]_vars

\* both threads are scheduled, and a blocked call returns once it can
SpecShutdownFair == SpecShutdown /\ WF_vars(CallStop) /\ WF_vars(JoinHudThread)
                    /\ WF_vars(DestroyOverlay) /\ WF_vars(RunTest)
                    /\ WF_vars(GetMessage) /\ WF_vars(WindowProc)


(***************************************************************************)
(* Properties.                                                             *)
(***************************************************************************)
Full == Len(m_buffer) = m_ws
ConstantWindow == \A i \in 1..Len(m_buffer) : m_buffer[i] = m_buffer[1]
Called == last_op.op = "calculate_bpm"

\* C1: a frame on which a face is found but the forehead geometry fails (the
\* stabilized forehead is the empty ROI) adds no sample to the window.
C1_GeometryFailureAddsNoSample ==
    [][outcome' = "GeometryFailure" => m_buffer' = m_buffer]_vars

\* C2: for any capacity N >= 2, calculate_bpm called on a full window of N
\* identical samples returns the NoiseFloor error, whatever min_b and max_b.
C2_ConstantWindowIsNoiseFloor ==
    (Called /\ m_ws >= 2 /\ Full /\ ConstantWindow /\ bpm.tag # "Abort")
        => bpm.tag = "NoiseFloor"

\* C3: after any sequence of add_sample and calculate_bpm calls the number of
\* buffered samples is at most the capacity.
C3_SizeAtMostCapacity == Len(m_buffer) <= m_ws

\* a sample was pushed into a full window and the window is still full
C3_PushedBeyondCapacity == Len(pushed) > m_ws /\ Full

\* the last n elements of s, all of s if it has fewer
LastN(s, n) == SubSeq(s, Max(1, Len(s) - n + 1), Len(s))

\* C4: the window holds the most recently pushed samples, min(pushes, capacity)
\* of them, in the order they were pushed: a push beyond the capacity evicts
\* the single oldest sample.
C4_WindowIsLastCapacityPushes == m_buffer = LastN(pushed, m_ws)

\* a push beyond the capacity evicted a sample that differs from the one pushed
C4_EvictionSeen ==
    /\ Len(pushed) > m_ws
    /\ m_ws >= 2
    /\ pushed[1] # pushed[Len(pushed)]
    /\ m_buffer # SubSeq(pushed, 1, m_ws)

\* C5: calculate_bpm returns Buffering exactly when the window holds fewer
\* samples than the capacity, and then leaves the debug images as they were;
\* a Ready or NoiseFloor result comes from a full window only.
C5_BufferingIffNotFull ==
    [][last_op'.op = "calculate_bpm" =>
         /\ (bpm'.tag = "Buffering") <=> (Len(m_buffer') < m_ws')
         /\ bpm'.tag = "Buffering" =>
               UNCHANGED << m_debug_fft_input, m_debug_fft_magnitude >>
         /\ bpm'.tag \in {"Ready", "NoiseFloor"} => Len(m_buffer') = m_ws']_vars

\* calculate_bpm answered Buffering on a window one sample short of full
C5_BufferingOneShort ==
    /\ Called
    /\ bpm.tag = "Buffering"
    /\ Len(m_buffer) = m_ws - 1
    /\ Len(m_buffer) >= 1

\* C6: a frame with no face adds no sample, does not call calculate_bpm, and
\* leaves the window and the published BPM as they were.
C6_NoFaceFrameChangesNothing ==
    [][outcome' = "NoFace" =>
         /\ m_buffer' = m_buffer
         /\ m_bpm' = m_bpm
         /\ bpm' = bpm
         /\ last_op' = NoCall]_vars

\* a no-face frame came after samples were collected and a BPM was published
C6_NoFaceAfterPublished ==
    outcome = "NoFace" /\ Len(m_buffer) > 0 /\ m_bpm > 0 /\ last_op = NoCall

\* C7: the published BPM changes only on a Ready result and then becomes that
\* result; it always equals the most recent Ready value (none: 0, shown as
\* "Analyzing..."); once a BPM is shown the text never returns to "Analyzing...".
C7_DisplayHoldsLastReady ==
    [][/\ m_bpm' # m_bpm =>
            (last_op'.op = "calculate_bpm" /\ bpm'.tag = "Ready" /\ m_bpm' = bpm'.bpm)
       /\ m_bpm' = last_ready'
       /\ paint_text(m_bpm) = "BPM" => paint_text(m_bpm') = "BPM"]_vars

\* a NoiseFloor result arrived while an earlier Ready value is on display
C7_ErrorAfterReady == Called /\ bpm.tag = "NoiseFloor" /\ m_bpm > 0

\* C8: calculate_bpm never modifies the window, the capacity or the sampling
\* rate, and a second call with the same min_b and max_b and no add_sample in
\* between returns what the first returned.
C8_CalculateBpmIsReadOnly ==
    [][last_op'.op = "calculate_bpm" =>
         /\ UNCHANGED << m_buffer, m_ws, m_fps >>
         /\ last_op'.again # "no" => bpm' = bpm]_vars

\* calculate_bpm was called twice in a row on a full window and returned a BPM
C8_CalledTwice == Called /\ last_op.again = "same" /\ Full /\ bpm.tag = "Ready"

\* C9: with two calls on the same window and the same min_b and max_b, one with
\* debug_plot and one without, both return the same result.
C9_DebugPlotSameResult ==
    [][(last_op'.op = "calculate_bpm" /\ last_op'.again = "flipped")
          => bpm' = bpm]_vars

\* a call with debug_plot followed one without on a window with two bins to scan
C9_DebugAfterPlain ==
    /\ Called
    /\ last_op.again = "flipped"
    /\ last_op.debug_plot
    /\ m_debug_fft_input
    /\ m_ws >= 6
    /\ ~ConstantWindow
    /\ bpm.tag = "Ready"

\* acquisition_fps as AppConfig::load stores it
StoredFps == Min(Max(cfg.yaml.fps, 10), 60)
FromDuration == pc = "constructed" /\ cfg.yaml.key = "window_duration_seconds"

\* C10 as amended: the capacity is max(2, round(max(1.0, window_duration_seconds)
\* * acquisition_fps)), the duration being raised to one second first; 8.5 s at
\* 10 fps gives 85.
C10_CapacityFromFlooredDuration ==
    FromDuration =>
        /\ window_size = Max(2, (2 * Max(cfg.yaml.quarters, 4) * StoredFps + 4) \div 8)
        /\ m_ws = window_size
        /\ (cfg.yaml.quarters = 34 /\ StoredFps = 10) => window_size = 85

\* the analyzer was constructed for 8.5 s at 10 fps
C10_DefaultWindow ==
    FromDuration /\ cfg.yaml.quarters = 34 /\ cfg.yaml.fps = 10 /\ m_ws = 85

\* C10 as stated: the capacity is max(2, round(window_duration_seconds *
\* acquisition_fps)).
C10_CapacityFromDuration ==
    FromDuration =>
        window_size = Max(2, (2 * cfg.yaml.quarters * StoredFps + 4) \div 8)

\* C11: none of the per-frame outcomes NoFace, GeometryFailure, Buffering or
\* NoiseFloor ends the processing loop: an iteration leaves the loop exactly
\* when the camera read failed or cv::waitKey returned ESC, and otherwise the
\* loop goes on to the next frame.
C11_LoopEndsOnlyOnReadFailOrEsc ==
    [][pc = "loop" =>
         IF outcome' = "ReadFail" \/ last_key' = "ESC"
         THEN pc' = "done"
         ELSE pc' = "loop"]_vars

\* the loop is still running after a geometry-failure frame that ended in NoiseFloor
C11_LoopGoesOnAfterFailure ==
    /\ pc = "loop"
    /\ outcome = "GeometryFailure"
    /\ Called
    /\ bpm.tag = "NoiseFloor"

\* a step of the HUD thread / of the processing thread in the handoff
ByHud == hud'.actor = "hud"
ByMain == hud'.actor = "main"
Copying == hud.main_pc \in {"copy_upper", "copy_lower", "unlock"}
Painting == hud.hud_pc \in {"read_upper", "read_lower", "unlock"}
Torn(image) == image[1] # image[2]

\* what update_frame and paint guarantee about the shared frame: every write
\* and every read of m_frame happens while the thread holds m_mtx, the image
\* paint draws is never a partially copied frame, and the HUD thread writes
\* neither the analyzer's window nor m_bpm nor m_frame
FrameHandoff ==
    /\ Copying' => hud'.m_mtx = "main"
    /\ Painting' => hud'.m_mtx = "hud"
    /\ ~Torn(hud'.painted)
    /\ ByHud => /\ UNCHANGED << analyzerVars, bpm, last_op, pushed, m_bpm >>
                /\ hud'.m_frame = hud.m_frame
    /\ ByMain => /\ hud'.painted = hud.painted
                 /\ hud'.text = hud.text

\* C12 as amended: the frame handoff is guarded as stated, and besides the BPM
\* scalar and the display frame two atomic flags cross the thread boundary:
\* m_debug_enabled, written only by the HUD thread (and read by the loop), and
\* m_running, written only by the processing thread (and read by the HUD).
C12_GuardedHandoffAndAtomicFlags ==
    [][/\ FrameHandoff
       /\ ByMain => m_debug_enabled' = m_debug_enabled
       /\ ByHud => hud'.m_running = hud.m_running]_vars

\* paint drew a complete frame while update_frame was waiting to copy the
\* next one, and the loop has read a debug flag that the HUD thread set
C12_PaintedWhileNextFrameWaits ==
    /\ hud.painted = << 1, 1 >>
    /\ hud.source = 1
    /\ hud.m_mtx = "hud"
    /\ hud.main_pc = "idle"
    /\ hud.debug_mode

\* C12 as stated: the frame handoff is guarded, and only the BPM scalar and the
\* display frame are exchanged, so that neither thread writes anything else
\* that the other one reads.
C12_OnlyBpmAndFrameCross ==
    [][/\ FrameHandoff
       /\ ByHud => m_debug_enabled' = m_debug_enabled
       /\ ByMain => hud'.m_running = hud.m_running]_vars

\* the pixel columns and rows of the frame that lie inside the bounding box of
\* the back-projected corners
ColumnsInside ==
    { x \in 0..(geo.frame.cols - 1) :
        /\ \E k \in 1..4 : geo.frame_corners[k][1] < Eighths * (x + 1)
        /\ \E k \in 1..4 : geo.frame_corners[k][1] >= Eighths * x }
RowsInside ==
    { y \in 0..(geo.frame.rows - 1) :
        /\ \E k \in 1..4 : geo.frame_corners[k][2] < Eighths * (y + 1)
        /\ \E k \in 1..4 : geo.frame_corners[k][2] >= Eighths * y }

\* C13: get_stabilized_forehead returns an empty ROI whenever the bounding box
\* of the back-projected corners, intersected with the frame, is less than 2
\* pixels wide or less than 2 pixels high, and otherwise a patch of exactly
\* 60 x 45 pixels.
C13_EmptyIffBoxBelowTwo ==
    geo.called =>
      IF Cardinality(ColumnsInside) < 2 \/ Cardinality(RowsInside) < 2
      THEN geo.result.empty
      ELSE /\ ~geo.result.empty
           /\ geo.result.cols = 60
           /\ geo.result.rows = 45

\* a box that is wide enough but only one row high
C13_WideButOneRow ==
    /\ geo.called
    /\ Cardinality(ColumnsInside) >= 2
    /\ Cardinality(RowsInside) = 1
    /\ geo.result.empty

\* part 27 lies on the line through parts 19 and 24, or off it by at most one
\* sixteenth of the distance between parts 19 and 24
Collinear(srcTri) == Singular(srcTri)
NearlyCollinear(srcTri) ==
    LET a == Minus(srcTri[2], srcTri[1])
        b == Minus(srcTri[3], srcTri[1])
        area == IF Det(a, b) < 0 THEN -Det(a, b) ELSE Det(a, b)
    IN  /\ area # 0
        /\ 16 * area <= a[1] * a[1] + a[2] * a[2]

\* C14: when the three anchors are collinear or nearly collinear,
\* get_stabilized_forehead returns an empty ROI (and does not throw).
C14_DegenerateAnchorsGiveEmptyRoi ==
    (geo.called /\ (Collinear(geo.srcTri) \/ NearlyCollinear(geo.srcTri)))
      => geo.result.empty

\* the oscillation in thousandths of a BPM, the width of one bin, and the two
\* POS signals of the window
ToneBpm == (60000 * tone.cycles * m_fps) \div m_ws
BinWidth == (60000 * m_fps) \div m_ws
WindowS1 ==
    [i \in 1..Len(m_buffer) |->
       normalize(Channel(m_buffer, 2))[i] - normalize(Channel(m_buffer, 1))[i]]
WindowS2 ==
    [i \in 1..Len(m_buffer) |->
       normalize(Channel(m_buffer, 2))[i] + normalize(Channel(m_buffer, 1))[i]
         - 2 * normalize(Channel(m_buffer, 3))[i]]
\* a full window with S1 the oscillation and S2 = 0, analysed with a BPM range
\* that holds the frequency of the oscillation
ToneAnalysed ==
    /\ pc = "tone" /\ Called /\ Full
    /\ \A i \in 1..m_ws : WindowS2[i] = 0
    /\ \A i \in 1..m_ws : WindowS1[i] * tone.base = 800 * ToneSine(m_ws, tone.cycles, i - 1)
    /\ \E i \in 1..m_ws : WindowS1[i] # 0
    /\ 1000 * last_op.min_b <= ToneBpm
    /\ ToneBpm <= 1000 * last_op.max_b

\* C15: for a full window with S1[i] = A sin(2 pi f i / N) and S2 = 0, f * 60
\* inside [min_bpm, max_bpm], calculate_bpm returns Ready with a BPM within
\* one bin width (60 fps / N) of f * 60.
C15_ToneWithinOneBin ==
    ToneAnalysed =>
      /\ bpm.tag = "Ready"
      /\ bpm.bpm - ToneBpm <= BinWidth
      /\ ToneBpm - bpm.bpm <= BinWidth

\* C16: for any capacity N >= 2, when all N samples of the window are
\* identical, the pulse signal H computed by calculate_bpm is zero at every
\* index after its mean is removed.
C16_ConstantWindowGivesZeroPulse ==
    (pc = "calls" /\ Called /\ Full /\ ConstantWindow /\ m_ws >= 2) =>
      /\ ~PulseSignal(m_buffer, fp_round).nan
      /\ \A i \in 1..m_ws : PulseSignal(m_buffer, fp_round).h[i] = 0

\* the bins the two loops visit, and those of them whose magnitude is a number
ScannedBins == { i \in scan.range.low..scan.range.high : i < scan.ws \div 2 }
Candidates == { i \in ScannedBins : ~scan.mag[i].nan }
Scanned == scan.done /\ ~scan.range.abort

\* what C17 says of one scan: the range lies in 1 .. N/2 - 1, and neither the
\* peak nor a top-3 slot holds a bin outside of it
RangeExcludesDcAndNyquist ==
    /\ ~scan.range.abort
    /\ 1 <= scan.range.low
    /\ scan.range.low <= scan.range.high
    /\ scan.range.high <= (scan.ws \div 2) - 1
    /\ scan.peak = -1 \/ scan.peak \in scan.range.low..scan.range.high
    /\ \A k \in 1..3 :
         scan.top[k].idx = -1 \/ scan.top[k].idx \in scan.range.low..scan.range.high

\* C17 as amended: for every capacity N >= 4, every fps and every
\* min_bpm/max_bpm the scanned range satisfies 1 <= low <= high <= N/2 - 1,
\* so that bin 0 and the bins from N/2 on are never scanned and never the
\* peak.  (For N = 2 and N = 3 there is no such range: N/2 - 1 = 0, and
\* std::clamp is called with lo > hi.)
C17_RangeWithinOneToHalf ==
    (scan.done /\ scan.ws >= 4) => RangeExcludesDcAndNyquist

\* both ends of the requested range had to be clamped
C17_BothEndsClamped ==
    /\ scan.done /\ scan.ws = 10 /\ scan.fps = 10
    /\ scan.min_b = 0 /\ scan.max_b = 300
    /\ scan.range.low = 1 /\ scan.range.high = 4
    /\ scan.peak = 4

\* C17 as stated: for every capacity N >= 2 the scanned range satisfies
\* 1 <= low <= high <= N/2 - 1.
C17_RangeWithinOneToHalfFromTwo ==
    (scan.done /\ scan.ws >= 2) => RangeExcludesDcAndNyquist

\* C18: a Ready result is peak_bin * fps / N * 60, where peak_bin is the bin of
\* the greatest magnitude among the bins low..high, the lowest index winning
\* among equal bins; NoiseFloor is returned exactly when the scan found no bin
\* with an index > 0.
C18_PeakIsFirstMaximum ==
    Scanned =>
      LET best == { i \in Candidates :
                      \A j \in Candidates : scan.mag[j].v <= scan.mag[i].v }
          found == { i \in best : i > 0 /\ \A j \in best : i <= j }
      IN  /\ \A i \in found :
               scan.res = [tag |-> "Ready",
                           bpm |-> (i * scan.fps * 60000) \div scan.ws]
          /\ found = {} <=> scan.res = NoiseFloor

\* two bins of the range share the greatest magnitude; the lower one is reported
C18_TieGoesToLowerBin ==
    /\ Scanned /\ scan.ws = 10 /\ scan.fps = 10
    /\ scan.range.low = 1 /\ scan.range.high = 3
    /\ scan.mag[1].v = 1 /\ scan.mag[2].v = 2 /\ scan.mag[3].v = 2
    /\ ~scan.mag[1].nan
    /\ scan.res = [tag |-> "Ready", bpm |-> 120000]

\* bin i is ranked before bin j: greater magnitude, or equal and lower index
RankedBefore(i, j) ==
    \/ scan.mag[i].v > scan.mag[j].v
    \/ scan.mag[i].v = scan.mag[j].v /\ i < j
RankOf(i) == Cardinality({ j \in Candidates : RankedBefore(j, i) }) + 1

\* C19: after the debug top-3 scan top[0], top[1], top[2] hold the three
\* largest magnitudes of the range in non-increasing order, the lower index
\* first among equal magnitudes; a slot for which the range has too few bins
\* keeps index -1.
C19_TopThreeRanked ==
    Scanned =>
      \A k \in 1..3 :
        IF \E i \in Candidates : RankOf(i) = k
        THEN \E i \in Candidates :
               /\ RankOf(i) = k
               /\ scan.top[k] = [idx |-> i, mag |-> scan.mag[i]]
        ELSE scan.top[k] = NoPeak

\* four bins in the range, the greatest last, two equal ones before it, and
\* the smallest left out
C19_FourBinsWithTie ==
    /\ Scanned /\ scan.range.low = 1 /\ scan.range.high = 4 /\ scan.ws = 10
    /\ scan.mag[1].v = 1 /\ scan.mag[2].v = 0 /\ scan.mag[3].v = 1 /\ scan.mag[4].v = 2
    /\ ~scan.mag[1].nan
    /\ scan.top[1].idx = 4 /\ scan.top[2].idx = 1 /\ scan.top[3].idx = 3

\* C20: in the main loop calculate_bpm runs in a frame only after exactly one
\* add_sample of that same frame: every frame either adds one sample and then
\* estimates on the window that holds it, or adds nothing and estimates
\* nothing; hence exactly one sample is added between two consecutive
\* calculate_bpm calls.
C20_OneSamplePerEstimate ==
    [][(pc = "loop" /\ m_debug_enabled' = m_debug_enabled) =>
         \/ /\ last_op'.op = "calculate_bpm"
            /\ \E bgr \in Samples : m_buffer' = add_sample(m_buffer, m_ws, bgr)
            /\ bpm'.tag = "Buffering" <=> Len(m_buffer') < m_ws
         \/ /\ last_op'.op = "none"
            /\ m_buffer' = m_buffer
            /\ bpm' = bpm]_vars

\* the frame whose sample fills the window for the first time produced the
\* first estimate
C20_FirstEstimateOnFilledWindow ==
    /\ pc = "loop" /\ outcome = "Sample" /\ Called /\ Full
    /\ bpm.tag = "Ready"
    /\ last_ready = bpm.bpm
    /\ used = 0

\* C21: once the window has reached its capacity it stays exactly full after
\* every later add_sample and calculate_bpm, so that after the first result
\* other than Buffering calculate_bpm never returns Buffering again.
C21_FullStaysFull ==
    [][/\ Full => Len(m_buffer') = m_ws'
       /\ (Called /\ bpm.tag # "Buffering") => bpm'.tag # "Buffering"]_vars

\* a result on a full window, a further sample, and a result again
C21_ResultAfterSampleOnFullWindow ==
    /\ pc = "calls" /\ Called /\ Full
    /\ Len(pushed) = m_ws + 1
    /\ bpm.tag = "NoiseFloor"
    /\ m_ws >= 4

\* C22: for a capacity N >= 4, a full window and magnitudes that are all
\* numbers >= 0, the peak loop visits at least one bin and selects a bin >= 1,
\* so that calculate_bpm returns Ready with a BPM > 0; NoiseFloor is returned
\* only for N in {2, 3} or when every scanned magnitude is NaN.
C22_NumbersGiveReady ==
    scan.done =>
      /\ (scan.ws >= 4 /\ \A k \in 0..(scan.ws - 1) : ~scan.mag[k].nan) =>
           /\ ScannedBins # {}
           /\ scan.peak >= 1
           /\ scan.res.tag = "Ready"
           /\ scan.res.bpm > 0
      /\ scan.res = NoiseFloor =>
           \/ scan.ws \in {2, 3}
           \/ \A i \in ScannedBins : scan.mag[i].nan

\* a single bin is scanned, every magnitude is 0, and the result is Ready
C22_ZeroSpectrumOneBin ==
    /\ scan.done /\ scan.ws >= 4
    /\ scan.range.low = scan.range.high
    /\ \A k \in 0..(scan.ws - 1) : ~scan.mag[k].nan /\ scan.mag[k].v = 0
    /\ scan.res.tag = "Ready"
    /\ scan.peak = scan.range.low

\* C23: on every way the main frame loop can end (camera read failure, ESC
\* key, or an exception thrown inside the try block) Overlay::stop has taken
\* effect before the HUD thread is joined and Overlay::run then returns, so
\* that the join completes and the process terminates instead of blocking
\* forever.
C23_ShutdownCompletes ==
    /\ [](hud.main_pc = "join" => ~hud.m_running)
    /\ (pc = "shutdown" /\ hud.ending # "none") ~> (hud.main_pc = "returned")

====
